---- MODULE Spec2Model ----
(***************************************************************************)
(* Rolling upgrade of the io-engine data plane, k8s/upgrade-job            *)
(* src/upgrade/data_plane.rs.  The run (upgrade_data_plane) is a           *)
(* sequential program whose position is pc; every REST or Kubernetes call  *)
(* is one step, and the storage control plane, the DaemonSet controller    *)
(* and other actors act between any two steps.                             *)
(***************************************************************************)
EXTENDS Integers, Sequences, FiniteSets, TLC

\* ------------------------------------------------------------------ bounds
NumNodes == 2
MaxEnvChanges == 1
MaxGroupPods == 1
MaxIoEnginePods == 2
MaxRuns == 2
MaxRebuildPolls == 2

Nodes == 1..NumNodes

\* ------------------------------------------------------------ constants
DRAIN_FOR_UPGRADE == "mayastor-upgrade"
OTHER_LABEL == "other-actor"
DrainLabels == {DRAIN_FOR_UPGRADE, OTHER_LABEL}

\* openapi::models::CordonDrainState as the run reads it: None, drainingstate
\* or drainedstate, the latter two with their drainlabels.
Uncordoned == [kind |-> "Uncordoned", drainlabels |-> {}]
CordonDrainStates ==
    {Uncordoned} \cup
    [kind : {"Draining", "Drained"}, drainlabels : (SUBSET DrainLabels) \ {{}}]

\* A pod list as the readiness of its items, in listing order.
PodLists(max) == UNION {[1..k -> BOOLEAN] : k \in 0..max}

\* The stages of the per-node sequence, in the order of the loop body.
Stages == <<"drain", "rebuild", "delete", "uncordon", "dp_ready", "cp_ready">>

\* The errors of common::error that upgrade_data_plane can return.
Errors ==
    {"ListPodsWithLabel", "EmptyPodNodeName", "GetStorageNode", "DrainStorageNode",
     "IsRebuilding", "PodDelete", "StorageNodeUncordon", "ListPodsWithLabelAndField",
     "TooManyIoEnginePods"}

\* ------------------------------------------------------------------ state
VARIABLES
    \* the cluster, owned by the environment
    nodes,          \* node id -> cordon/drain state held by the control plane
    rebuilding,     \* the cluster-wide rebuild-in-progress flag
    fromPods,       \* node id -> TRUE while its fromVersion io-engine pod exists
    toPods,         \* node id -> readiness of the toVersion io-engine pods on it
    latePods,       \* nodes whose latest fromVersion io-engine pod started during the run
    envChanges,     \* disturbances so far: rebuilds started, changes by other actors
    \* the run
    pc,             \* position of upgrade_data_plane
    result,         \* "none" while running, then "Ok" or the error
    initial_io_engine_pod_list,  \* the snapshot: sequence of [name, node]
    idx,            \* index of the snapshot entry of the current iteration (0: before the loop)
    pod_list,       \* the listing held by data_plane_pod_is_running
    core_is_ready,  \* local of control_plane_is_running, line 332
    rest_is_ready,  \* local of control_plane_is_running, line 344
    runs,           \* invocations of upgrade_data_plane so far
    \* history of the current run
    stageLog,       \* <<node, stage>> of every stage entered, in order
    issued,         \* <<request, node>> of every drain, delete, uncordon request
    seenDrained,    \* last get_node of drain_storage_node saw Drained + label
    seenNoRebuild,  \* last is_rebuilding poll returned false
    cpTrue,         \* gates at which control_plane_is_running returned true
    dpTrue,         \* entries for which data_plane_pod_is_running returned true
    emptyListed,    \* a listing of the latest control_plane_is_running call was empty
    waitLog,        \* sleeps and polls of the latest wait_for_rebuild call, in order
    deletes         \* name of the pod of every delete request, in order

envVars == <<nodes, rebuilding, fromPods, toPods, latePods, envChanges>>
runVars == <<pc, result, initial_io_engine_pod_list, idx, pod_list, core_is_ready, rest_is_ready, runs>>
histVars ==
    <<stageLog, issued, seenDrained, seenNoRebuild, cpTrue, dpTrue, emptyListed, waitLog, deletes>>
vars == <<envVars, runVars, histVars>>

\* ---------------------------------------------------------------- helpers
\* drain_state.drainlabels.contains(&drain_label_for_upgrade) on a drainedstate
DrainedForUpgrade(s) == s.kind = "Drained" /\ DRAIN_FOR_UPGRADE \in s.drainlabels
\* ... and on a drainingstate
DrainingForUpgrade(s) == s.kind = "Draining" /\ DRAIN_FOR_UPGRADE \in s.drainlabels

\* Name of the fromVersion io-engine pod of node n.
FromPodName(n) == <<"io-engine", n>>

\* Name of a fromVersion io-engine pod that started on node n during the run.
LatePodName(n) == <<"io-engine-late", n>>

\* Name of the fromVersion io-engine pod that node n runs now.
PodNameOn(n) == IF n \in latePods THEN LatePodName(n) ELSE FromPodName(n)

\* Variant: the entries are taken in the order of their node ids instead of the
\* order of the listing.
pod_in_node_order ==
    LET entries == {initial_io_engine_pod_list[i] : i \in DOMAIN initial_io_engine_pod_list}
    IN  CHOOSE e \in entries : Cardinality({f \in entries : f.node < e.node}) = idx - 1

\* The snapshot entry of the current iteration, and the node it runs on.
pod == initial_io_engine_pod_list[idx]
node_name == pod.node

\* upgrade::utils::all_pods_are_ready: every pod of the list reports Ready.
all_pods_are_ready(list) == \A i \in 1..Len(list) : list[i]

\* upgrade::utils::is_rebuilding: the cluster-wide flag of the REST API.
is_rebuilding == rebuilding

\* Variant: the check of lines 292-294 for an empty listing is missing.
data_plane_pod_is_running_no_empty_check(list) ==
    IF Len(list) # 1 THEN "TooManyIoEnginePods"
    ELSE IF all_pods_are_ready(list) THEN "true" ELSE "false"

\* Variant: the check of lines 296-298 for more than one pod is missing.
data_plane_pod_is_running_any_count(list) ==
    IF list = <<>> THEN "false"
    ELSE IF all_pods_are_ready(list) THEN "true" ELSE "false"

\* data_plane_pod_is_running, after its listing: "false", "true" or the error.
data_plane_pod_is_running(list) ==
    IF list = <<>> THEN "false"
    ELSE IF Len(list) # 1 THEN "TooManyIoEnginePods"
    ELSE IF all_pods_are_ready(list) THEN "true" ELSE "false"

\* The storage control plane's answer to put_node_drain(node, label): the node
\* starts draining under the label; a node already drained may stay drained or
\* be drained again.
PutNodeDrain(s, label) ==
    LET labels == s.drainlabels \cup {label}
    IN  IF s.kind = "Drained"
        THEN {[kind |-> "Drained", drainlabels |-> labels],
              [kind |-> "Draining", drainlabels |-> labels]}
        ELSE {[kind |-> "Draining", drainlabels |-> labels]}

\* ... and to delete_node_cordon(node, label): the label is removed, and the
\* node is uncordoned when no label is left.
DeleteNodeCordon(s, label) ==
    LET labels == s.drainlabels \ {label}
    IN  IF labels = {} THEN Uncordoned ELSE [s EXCEPT !.drainlabels = labels]

\* Every ordering of a finite set: the listing order is not specified.
Orderings(S) ==
    {f \in [1..Cardinality(S) -> S] : \A i, j \in 1..Cardinality(S) : f[i] = f[j] => i = j}

\* ------------------------------------------------------------------- Init
\* Some nodes still run the fromVersion io-engine pod, the others already run
\* one ready toVersion pod; no node is cordoned and no rebuild is running.
NoHistory ==
    /\ stageLog = <<>>
    /\ issued = {}
    /\ seenDrained = FALSE
    /\ seenNoRebuild = FALSE
    /\ cpTrue = {}
    /\ dpTrue = {}
    /\ emptyListed = FALSE
    /\ waitLog = <<>>
    /\ deletes = <<>>

Init ==
    /\ nodes = [n \in Nodes |-> Uncordoned]
    /\ rebuilding = FALSE
    /\ \E S \in SUBSET Nodes :
          /\ fromPods = [n \in Nodes |-> n \in S]
          /\ toPods = [n \in Nodes |-> IF n \in S THEN <<>> ELSE <<TRUE>>]
    /\ latePods = {}
    /\ envChanges = 0
    /\ pc = "start"
    /\ result = "none"
    /\ initial_io_engine_pod_list = <<>>
    /\ idx = 0
    /\ pod_list = <<>>
    /\ core_is_ready = FALSE
    /\ rest_is_ready = FALSE
    /\ runs = 1
    /\ NoHistory

\* ---------------------------------------------------------------- the run
\* Variant: the error of a call is swallowed and the call is made again.
OnError_retries(err) == [pc |-> pc, result |-> "none"]

\* Variant: the error is recorded and the loop goes on with the same entry.
OnError_continues(err) == [pc |-> IF idx = 0 THEN "done" ELSE "loop", result |-> err]

\* What every function of the run does with the Err of a call: the ? operator
\* returns it, up to the caller of upgrade_data_plane.
OnError(err) == [pc |-> "done", result |-> err]

\* Entering a stage of the loop body for the current snapshot entry.
Enter(stage) == stageLog' = Append(stageLog, <<node_name, stage>>)

\* Variant: the control-plane check of line 47 is missing.
Start_without_control_plane_check ==
    /\ pc = "start"
    /\ pc' = "snapshot"
    /\ UNCHANGED <<envVars, result, initial_io_engine_pod_list, idx, pod_list,
                   core_is_ready, rest_is_ready, runs, histVars>>

\* upgrade_data_plane, lines 33-47: the clients are built and the first
\* control-plane check starts.
Start ==
    /\ pc = "start"
    /\ pc' = "cp_core"
    /\ UNCHANGED <<envVars, result, initial_io_engine_pod_list, idx, pod_list, core_is_ready,
                   rest_is_ready, runs, histVars>>

\* control_plane_is_running, lines 322-332: the agent-core pods of toVersion.
CpListCore ==
    /\ pc = "cp_core"
    /\ \E list \in PodLists(MaxGroupPods) :
          /\ core_is_ready' = all_pods_are_ready(list)
          /\ emptyListed' = (list = <<>>)
    /\ pc' = "cp_rest"
    /\ UNCHANGED <<envVars, result, initial_io_engine_pod_list, idx, pod_list,
                   rest_is_ready, runs, stageLog, issued, seenDrained, seenNoRebuild,
                   cpTrue, dpTrue, waitLog, deletes>>

\* control_plane_is_running, lines 334-344: the api-rest pods of toVersion.
CpListRest ==
    /\ pc = "cp_rest"
    /\ \E list \in PodLists(MaxGroupPods) :
          /\ rest_is_ready' = all_pods_are_ready(list)
          /\ emptyListed' = (emptyListed \/ list = <<>>)
    /\ pc' = "cp_etcd"
    /\ UNCHANGED <<envVars, result, initial_io_engine_pod_list, idx, pod_list,
                   core_is_ready, runs, stageLog, issued, seenDrained, seenNoRebuild,
                   cpTrue, dpTrue, waitLog, deletes>>

\* control_plane_is_running, line 356: the value returned.
control_plane_is_running(core, rest, etcd) == core /\ rest /\ etcd

\* Variant: the control plane is checked once and never waited for.
verify_control_plane_once(running) == "return"

\* verify_control_plane_is_running, lines 309-313: what the loop does with the
\* value control_plane_is_running returned.
verify_control_plane_is_running(running) == IF running THEN "return" ELSE "sleep"

\* control_plane_is_running, lines 346-356: the etcd pods and the value returned;
\* verify_control_plane_is_running, line 309, on that value; then line 49 after
\* the first check and the next iteration of the loop after the others.
CpListEtcd ==
    /\ pc = "cp_etcd"
    /\ \E list \in PodLists(MaxGroupPods) :
          LET etcd_is_ready == all_pods_are_ready(list)
              running ==
                  control_plane_is_running(core_is_ready, rest_is_ready, etcd_is_ready)
          IN  /\ emptyListed' = (emptyListed \/ list = <<>>)
              /\ cpTrue' = IF running THEN cpTrue \cup {idx} ELSE cpTrue
              /\ IF verify_control_plane_is_running(running) = "return"
                 THEN IF idx = 0
                      THEN pc' = "snapshot" /\ idx' = idx
                      ELSE pc' = "loop" /\ idx' = idx + 1
                 ELSE pc' = "cp_sleep" /\ idx' = idx
    /\ core_is_ready' = FALSE
    /\ rest_is_ready' = FALSE
    /\ UNCHANGED <<envVars, result, initial_io_engine_pod_list, pod_list, runs,
                   stageLog, issued, seenDrained, seenNoRebuild, dpTrue, waitLog, deletes>>

\* verify_control_plane_is_running, line 310: sleep 3 s.
CpSleep ==
    /\ pc = "cp_sleep"
    /\ pc' = "cp_core"
    /\ UNCHANGED <<envVars, result, initial_io_engine_pod_list, idx, pod_list,
                   core_is_ready, rest_is_ready, runs, histVars>>

\* upgrade_data_plane, lines 49-56: the one listing of the fromVersion pods, in
\* the order the API returns them.
Snapshot ==
    /\ pc = "snapshot"
    /\ \E order \in Orderings({n \in Nodes : fromPods[n]}) :
          initial_io_engine_pod_list' =
              [i \in DOMAIN order |-> [name |-> PodNameOn(order[i]), node |-> order[i]]]
    /\ idx' = 1
    /\ pc' = "loop"
    /\ UNCHANGED <<envVars, result, pod_list, core_is_ready, rest_is_ready, runs, histVars>>

\* Variant: past the last entry the fromVersion pods are listed again, and a pod
\* that the snapshot does not hold is added to it.
Loop_listing_again ==
    /\ pc = "loop"
    /\ LET names == {initial_io_engine_pod_list[i].name : i \in DOMAIN initial_io_engine_pod_list}
           fresh == {n \in Nodes : fromPods[n] /\ PodNameOn(n) \notin names}
       IN  IF idx > Len(initial_io_engine_pod_list)
           THEN IF fresh = {}
                THEN /\ pc' = "done"
                     /\ result' = "Ok"
                     /\ UNCHANGED <<initial_io_engine_pod_list, stageLog, seenDrained,
                                    seenNoRebuild>>
                ELSE /\ \E n \in fresh :
                           initial_io_engine_pod_list' =
                               Append(initial_io_engine_pod_list,
                                      [name |-> PodNameOn(n), node |-> n])
                     /\ UNCHANGED <<pc, result, stageLog, seenDrained, seenNoRebuild>>
           ELSE /\ pc' = "drain_get"
                /\ Enter("drain")
                /\ seenDrained' = FALSE
                /\ seenNoRebuild' = FALSE
                /\ UNCHANGED <<result, initial_io_engine_pod_list>>
    /\ UNCHANGED <<envVars, idx, pod_list, core_is_ready, rest_is_ready, runs,
                   issued, cpTrue, dpTrue, emptyListed, waitLog, deletes>>

\* upgrade_data_plane, lines 58-88 and 112: the loop head. Past the last entry
\* the run returns Ok; otherwise the node name is resolved and
\* drain_storage_node is called.
Loop ==
    /\ pc = "loop"
    /\ IF idx > Len(initial_io_engine_pod_list)
       THEN /\ pc' = "done"
            /\ result' = "Ok"
            /\ UNCHANGED <<stageLog, seenDrained, seenNoRebuild>>
       ELSE /\ pc' = "drain_get"
            /\ Enter("drain")
            /\ seenDrained' = FALSE
            /\ seenNoRebuild' = FALSE
            /\ UNCHANGED result
    /\ UNCHANGED <<envVars, initial_io_engine_pod_list, idx, pod_list, core_is_ready, rest_is_ready, runs,
                   issued, cpTrue, dpTrue,
                   emptyListed, waitLog, deletes>>

\* Variant: the drain labels are not looked at.
drain_storage_node_any_label(s) ==
    IF s.kind = "Draining" THEN "sleep"
    ELSE IF s.kind = "Drained" THEN "return"
    ELSE "put_node_drain"

\* Variant: the end of the drain is not waited for.
drain_storage_node_no_wait(s) ==
    IF DrainingForUpgrade(s) \/ DrainedForUpgrade(s) THEN "return" ELSE "put_node_drain"

\* Variant: a node that is still draining under the label is drained again
\* instead of being waited for.
drain_storage_node_drains_again(s) ==
    IF DrainedForUpgrade(s) THEN "return" ELSE "put_node_drain"

\* drain_storage_node, lines 230-265: the arm taken for a fetched state.
drain_storage_node(s) ==
    IF DrainingForUpgrade(s) THEN "sleep"
    ELSE IF DrainedForUpgrade(s) THEN "return"
    ELSE "put_node_drain"

\* drain_storage_node, lines 221-253: get_node and the match on its state.
DrainGet ==
    /\ pc = "drain_get"
    /\ LET s == nodes[node_name]
           arm == drain_storage_node(s)
       IN  /\ seenDrained' = DrainedForUpgrade(s)
           /\ IF arm = "sleep" THEN pc' = "drain_sleep" /\ UNCHANGED stageLog
              ELSE IF arm = "return" THEN pc' = "rebuild_grace" /\ Enter("rebuild")
              ELSE pc' = "drain_put" /\ UNCHANGED stageLog
    /\ UNCHANGED <<envVars, result, initial_io_engine_pod_list, idx, pod_list, core_is_ready,
                   rest_is_ready, runs, issued, seenNoRebuild, cpTrue, dpTrue,
                   emptyListed, waitLog, deletes>>

\* drain_storage_node, line 246: sleep 5 s.
DrainSleep ==
    /\ pc = "drain_sleep"
    /\ pc' = "drain_get"
    /\ UNCHANGED <<envVars, result, initial_io_engine_pod_list, idx, pod_list, core_is_ready,
                   rest_is_ready, runs, histVars>>

\* drain_storage_node, lines 255-263: put_node_drain with DRAIN_FOR_UPGRADE.
DrainPut ==
    /\ pc = "drain_put"
    /\ \E s \in PutNodeDrain(nodes[node_name], DRAIN_FOR_UPGRADE) :
          nodes' = [nodes EXCEPT ![node_name] = s]
    /\ issued' = issued \cup {<<"drain", node_name>>}
    /\ pc' = "drain_get"
    /\ UNCHANGED <<rebuilding, fromPods, toPods, latePods, envChanges, result,
                   initial_io_engine_pod_list, idx, pod_list, core_is_ready, rest_is_ready, runs, stageLog,
                   seenDrained, seenNoRebuild, cpTrue, dpTrue,
                   emptyListed, waitLog, deletes>>

\* Variant: the flag is polled at once, without the grace period.
RebuildGrace_skipped ==
    /\ pc = "rebuild_grace"
    /\ pc' = "rebuild_poll"
    /\ UNCHANGED <<envVars, result, initial_io_engine_pod_list, idx, pod_list, core_is_ready,
                   rest_is_ready, runs, histVars>>

\* wait_for_rebuild, line 208: the 60 s grace period.
RebuildGrace ==
    /\ pc = "rebuild_grace"
    /\ pc' = "rebuild_poll"
    /\ waitLog' = Append(waitLog, "sleep60")
    /\ UNCHANGED <<envVars, result, initial_io_engine_pod_list, idx, pod_list, core_is_ready,
                   rest_is_ready, runs, stageLog, issued, seenDrained, seenNoRebuild, cpTrue,
                   dpTrue, emptyListed, deletes>>

\* Variant: the flag is polled once and a running rebuild is not waited for.
wait_for_rebuild_no_wait(flag) == "return"

\* wait_for_rebuild, line 209: what the loop does with the polled flag.
wait_for_rebuild(flag) == IF flag THEN "sleep" ELSE "return"

\* Polls of the latest wait_for_rebuild call that returned true.
TruePolls == Cardinality({i \in DOMAIN waitLog : waitLog[i] = "true"})

\* wait_for_rebuild, lines 209-213: one poll of is_rebuilding. A rebuild is
\* over before it has been polled more than MaxRebuildPolls times.
RebuildPoll ==
    /\ pc = "rebuild_poll"
    /\ is_rebuilding => TruePolls < MaxRebuildPolls
    /\ seenNoRebuild' = ~is_rebuilding
    /\ waitLog' = Append(waitLog, IF is_rebuilding THEN "true" ELSE "false")
    /\ IF wait_for_rebuild(is_rebuilding) = "sleep"
       THEN pc' = "rebuild_sleep" /\ UNCHANGED stageLog
       ELSE pc' = "delete" /\ Enter("delete")
    /\ UNCHANGED <<envVars, result, initial_io_engine_pod_list, idx, pod_list, core_is_ready,
                   rest_is_ready, runs, issued, seenDrained, cpTrue, dpTrue,
                   emptyListed, deletes>>

\* wait_for_rebuild, line 211: sleep 10 s.
RebuildSleep ==
    /\ pc = "rebuild_sleep"
    /\ pc' = "rebuild_poll"
    /\ waitLog' = Append(waitLog, "sleep10")
    /\ UNCHANGED <<envVars, result, initial_io_engine_pod_list, idx, pod_list, core_is_ready,
                   rest_is_ready, runs, stageLog, issued, seenDrained, seenNoRebuild, cpTrue,
                   dpTrue, emptyListed, deletes>>

\* Variant: the pod to delete is looked up on the node when it is deleted.
pod_name_of_pod_on_node == PodNameOn(node_name)

\* delete_data_plane_pod, line 169: the name the delete request carries.
pod_name == pod.name

\* delete_data_plane_pod, lines 169-184: the pod of the snapshot entry is
\* deleted by name; the call succeeds only while a pod of that name exists.
DeletePod ==
    /\ pc = "delete"
    /\ fromPods[node_name]
    /\ pod_name = PodNameOn(node_name)
    /\ fromPods' = [fromPods EXCEPT ![node_name] = FALSE]
    /\ issued' = issued \cup {<<"delete", node_name>>}
    /\ deletes' = Append(deletes, pod_name)
    /\ waitLog' = <<>>
    /\ pc' = "uncordon_get"
    /\ Enter("uncordon")
    /\ UNCHANGED <<nodes, rebuilding, toPods, latePods, envChanges, result,
                   initial_io_engine_pod_list, idx, pod_list, core_is_ready, rest_is_ready, runs,
                   seenDrained, seenNoRebuild, cpTrue, dpTrue, emptyListed>>

\* Variant: the label is removed from a draining node as well.
uncordon_node_whenever_labelled(s) ==
    IF DRAIN_FOR_UPGRADE \in s.drainlabels THEN "delete_node_cordon" ELSE "return"

\* Variant: the drain label is never removed.
uncordon_node_never_removes(s) == "return"

\* uncordon_node, lines 129-157: the arm taken for a fetched state.
uncordon_node(s) == IF DrainedForUpgrade(s) THEN "delete_node_cordon" ELSE "return"

\* uncordon_node, lines 120-141 and 156: get_node and the match on its state.
UncordonGet ==
    /\ pc = "uncordon_get"
    /\ IF uncordon_node(nodes[node_name]) = "return"
       THEN pc' = "dp_list" /\ Enter("dp_ready")
       ELSE pc' = "uncordon_del" /\ UNCHANGED stageLog
    /\ UNCHANGED <<envVars, result, initial_io_engine_pod_list, idx, pod_list, core_is_ready,
                   rest_is_ready, runs, issued, seenDrained, seenNoRebuild, cpTrue, dpTrue,
                   emptyListed, waitLog, deletes>>

\* uncordon_node, lines 143-154: delete_node_cordon with DRAIN_FOR_UPGRADE.
UncordonDel ==
    /\ pc = "uncordon_del"
    /\ nodes' = [nodes EXCEPT
                    ![node_name] = DeleteNodeCordon(nodes[node_name], DRAIN_FOR_UPGRADE)]
    /\ issued' = issued \cup {<<"uncordon", node_name>>}
    /\ pc' = "uncordon_sleep"
    /\ UNCHANGED <<rebuilding, fromPods, toPods, latePods, envChanges, result,
                   initial_io_engine_pod_list, idx, pod_list, core_is_ready, rest_is_ready, runs, stageLog,
                   seenDrained, seenNoRebuild, cpTrue, dpTrue,
                   emptyListed, waitLog, deletes>>

\* uncordon_node, line 158: sleep 1 s.
UncordonSleep ==
    /\ pc = "uncordon_sleep"
    /\ pc' = "uncordon_get"
    /\ UNCHANGED <<envVars, result, initial_io_engine_pod_list, idx, pod_list, core_is_ready,
                   rest_is_ready, runs, histVars>>

\* data_plane_pod_is_running, lines 276-290: the listing for (node, toVersion).
DpList ==
    /\ pc = "dp_list"
    /\ pod_list' = toPods[node_name]
    /\ pc' = "dp_eval"
    /\ UNCHANGED <<envVars, result, initial_io_engine_pod_list, idx, core_is_ready, rest_is_ready, runs,
                   histVars>>

\* Variant: the loop gives up after one poll and returns Ok.
verify_data_plane_pod_once(r) == IF r \in {"true", "false"} THEN "return" ELSE "fail"

\* verify_data_plane_pod_is_running, lines 197-202: what the loop does with the
\* value data_plane_pod_is_running returned.
verify_data_plane_pod_is_running(r) ==
    IF r = "true" THEN "return" ELSE IF r = "false" THEN "sleep" ELSE "fail"

\* verify_data_plane_pod_is_running, lines 197-202, on the value returned by
\* data_plane_pod_is_running at lines 292-300.
DpEval ==
    /\ pc = "dp_eval"
    /\ LET r == data_plane_pod_is_running(pod_list)
           arm == verify_data_plane_pod_is_running(r)
       IN  /\ dpTrue' = IF r = "true" THEN dpTrue \cup {idx} ELSE dpTrue
           /\ IF arm = "return"
              THEN pc' = "cp_core" /\ Enter("cp_ready") /\ UNCHANGED result
              ELSE IF arm = "sleep"
              THEN pc' = "dp_sleep" /\ UNCHANGED <<stageLog, result>>
              ELSE pc' = OnError(r).pc /\ result' = OnError(r).result /\ UNCHANGED stageLog
    /\ UNCHANGED <<envVars, initial_io_engine_pod_list, idx, pod_list, core_is_ready, rest_is_ready, runs,
                   issued, seenDrained, seenNoRebuild, cpTrue,
                   emptyListed, waitLog, deletes>>

\* verify_data_plane_pod_is_running, line 200: sleep 5 s.
DpSleep ==
    /\ pc = "dp_sleep"
    /\ pc' = "dp_list"
    /\ UNCHANGED <<envVars, result, initial_io_engine_pod_list, idx, pod_list, core_is_ready,
                   rest_is_ready, runs, histVars>>

\* The error each fallible call of the run is wrapped in (the .context(..)? and
\* .ok_or(..)? of lines 47-78, 125-149, 179, 209, 226-261, 286 and 328-353).
ErrorAt ==
    [cp_core |-> "ListPodsWithLabel", cp_rest |-> "ListPodsWithLabel",
     cp_etcd |-> "ListPodsWithLabel", snapshot |-> "ListPodsWithLabel",
     loop |-> "EmptyPodNodeName", drain_get |-> "GetStorageNode",
     drain_put |-> "DrainStorageNode", rebuild_poll |-> "IsRebuilding",
     delete |-> "PodDelete", uncordon_get |-> "GetStorageNode",
     uncordon_del |-> "StorageNodeUncordon", dp_list |-> "ListPodsWithLabelAndField"]

\* The request a position issues, if it issues one.
RequestAt(p) ==
    IF p = "drain_put" THEN {<<"drain", node_name>>}
    ELSE IF p = "delete" THEN {<<"delete", node_name>>}
    ELSE IF p = "uncordon_del" THEN {<<"uncordon", node_name>>}
    ELSE {}

\* Any call of the run fails: the error is returned at once.
ApiFailure ==
    /\ pc \in DOMAIN ErrorAt
    /\ pc = "loop" => idx <= Len(initial_io_engine_pod_list)
    /\ pc' = OnError(ErrorAt[pc]).pc
    /\ result' = OnError(ErrorAt[pc]).result
    /\ issued' = issued \cup RequestAt(pc)
    /\ deletes' = IF pc = "delete" THEN Append(deletes, pod_name) ELSE deletes
    /\ UNCHANGED <<envVars, initial_io_engine_pod_list, idx, pod_list, core_is_ready, rest_is_ready, runs,
                   stageLog, seenDrained, seenNoRebuild, cpTrue, dpTrue,
                   emptyListed, waitLog>>

Run ==
    \/ Start \/ CpListCore \/ CpListRest \/ CpListEtcd \/ CpSleep \/ Snapshot \/ Loop
    \/ DrainGet \/ DrainSleep \/ DrainPut
    \/ RebuildGrace \/ RebuildPoll \/ RebuildSleep
    \/ DeletePod
    \/ UncordonGet \/ UncordonDel \/ UncordonSleep
    \/ DpList \/ DpEval \/ DpSleep

\* -------------------------------------------------------- the environment
\* The control plane finishes a drain: a draining node becomes drained.
EnvDrainComplete(n) ==
    /\ nodes[n].kind = "Draining"
    /\ nodes' = [nodes EXCEPT ![n].kind = "Drained"]
    /\ UNCHANGED <<rebuilding, fromPods, toPods, latePods, envChanges, runVars, histVars>>

\* A rebuild starts somewhere in the cluster.
EnvRebuildStart ==
    /\ ~rebuilding
    /\ envChanges < MaxEnvChanges
    /\ rebuilding' = TRUE
    /\ envChanges' = envChanges + 1
    /\ UNCHANGED <<nodes, fromPods, toPods, latePods, runVars, histVars>>

\* The last running rebuild completes.
EnvRebuildFinish ==
    /\ rebuilding
    /\ rebuilding' = FALSE
    /\ UNCHANGED <<nodes, fromPods, toPods, latePods, envChanges, runVars, histVars>>

\* The DaemonSet controller replaces a deleted io-engine pod by one of toVersion.
EnvPodReplace(n) ==
    /\ ~fromPods[n]
    /\ toPods[n] = <<>>
    /\ toPods' = [toPods EXCEPT ![n] = <<FALSE>>]
    /\ UNCHANGED <<nodes, rebuilding, fromPods, latePods, envChanges, runVars, histVars>>

\* A toVersion io-engine pod becomes Ready.
EnvPodReady(n) ==
    /\ \E i \in DOMAIN toPods[n] :
          /\ ~toPods[n][i]
          /\ toPods' = [toPods EXCEPT ![n][i] = TRUE]
    /\ UNCHANGED <<nodes, rebuilding, fromPods, latePods, envChanges, runVars, histVars>>

\* Another actor (an operator, another controller) changes the cordon/drain
\* state of a node.
EnvSetNodeState(n) ==
    /\ envChanges < MaxEnvChanges
    /\ \E s \in CordonDrainStates \ {nodes[n]} : nodes' = [nodes EXCEPT ![n] = s]
    /\ envChanges' = envChanges + 1
    /\ UNCHANGED <<rebuilding, fromPods, toPods, latePods, runVars, histVars>>

\* A further io-engine pod of toVersion shows up on a node.
EnvExtraPod(n) ==
    /\ envChanges < MaxEnvChanges
    /\ Len(toPods[n]) < MaxIoEnginePods
    /\ \E r \in BOOLEAN : toPods' = [toPods EXCEPT ![n] = Append(toPods[n], r)]
    /\ envChanges' = envChanges + 1
    /\ UNCHANGED <<nodes, rebuilding, fromPods, latePods, runVars, histVars>>

\* After the listing of line 49, a fromVersion io-engine pod starts on a node
\* under a new name, in the place of the one the node ran, if it ran one.
EnvFromPodStart(n) ==
    /\ idx >= 1
    /\ envChanges < MaxEnvChanges
    /\ n \notin latePods
    /\ fromPods' = [fromPods EXCEPT ![n] = TRUE]
    /\ latePods' = latePods \cup {n}
    /\ envChanges' = envChanges + 1
    /\ UNCHANGED <<nodes, rebuilding, toPods, runVars, histVars>>

Cluster ==
    \/ \E n \in Nodes : EnvDrainComplete(n)
    \/ EnvRebuildStart
    \/ EnvRebuildFinish
    \/ \E n \in Nodes : EnvPodReplace(n)
    \/ \E n \in Nodes : EnvPodReady(n)

OtherActors ==
    \/ \E n \in Nodes : EnvSetNodeState(n)
    \/ \E n \in Nodes : EnvExtraPod(n)
    \/ \E n \in Nodes : EnvFromPodStart(n)

\* ---------------------------------------------------------- specifications
\* The run in a cluster where calls may fail and other actors interfere.
Next == Run \/ ApiFailure \/ Cluster \/ OtherActors
Spec == Init /\ [][Next]_vars

\* The upgrade job is killed in the middle of a run.
Crash ==
    /\ pc \notin {"start", "done"}
    /\ pc' = "done"
    /\ result' = "Crashed"
    /\ UNCHANGED <<envVars, initial_io_engine_pod_list, idx, pod_list, core_is_ready,
                   rest_is_ready, runs, histVars>>

\* upgrade_data_plane, lines 27-47: a fresh invocation with the same arguments
\* after a run that did not return Ok. Nothing of the previous run is kept: the
\* pending pods are listed again at line 49.
Reinvoke ==
    /\ pc = "done"
    /\ result # "Ok"
    /\ runs < MaxRuns
    /\ pc' = "start"
    /\ result' = "none"
    /\ initial_io_engine_pod_list' = <<>>
    /\ idx' = 0
    /\ pod_list' = <<>>
    /\ core_is_ready' = FALSE
    /\ rest_is_ready' = FALSE
    /\ runs' = runs + 1
    /\ stageLog' = <<>>
    /\ issued' = {}
    /\ seenDrained' = FALSE
    /\ seenNoRebuild' = FALSE
    /\ cpTrue' = {}
    /\ dpTrue' = {}
    /\ emptyListed' = FALSE
    /\ waitLog' = <<>>
    /\ deletes' = <<>>
    /\ UNCHANGED envVars

\* The run and its reinvocations in a cluster without failing calls and without
\* other actors.
CrashNext == Run \/ Cluster \/ Crash \/ Reinvoke
CrashSpec == Init /\ [][CrashNext]_vars

\* A control-plane listing that finds the group ready, given that the groups
\* listed before it in the same call were ready.
CpCoreReady == CpListCore /\ core_is_ready'
CpRestReady == CpListRest /\ core_is_ready /\ rest_is_ready'
CpAllReady == CpListEtcd /\ pc' # "cp_sleep"

\* The run in a fair cluster: no call fails, no other actor interferes, the run
\* keeps executing, every drain completes, every rebuild ends, every deleted pod
\* is replaced by one pod that becomes Ready, and the control plane is found
\* ready again and again.
FairNext == Run \/ Cluster
Fairness ==
    /\ WF_vars(Run)
    /\ \A n \in Nodes : WF_vars(EnvDrainComplete(n))
    /\ WF_vars(EnvRebuildFinish)
    /\ \A n \in Nodes : WF_vars(EnvPodReplace(n))
    /\ \A n \in Nodes : WF_vars(EnvPodReady(n))
    /\ SF_vars(CpCoreReady)
    /\ SF_vars(CpRestReady)
    /\ SF_vars(CpAllReady)
FairSpec == Init /\ [][FairNext]_vars /\ Fairness

\* ------------------------------------------------------------------ claims
snapshot == initial_io_engine_pod_list
RequestsFor(n) == {r \in issued : r[2] = n}

\* C1 as stated: whenever the run is about to issue the delete request for a
\* pod, the node of the pod is Drained with the DRAIN_FOR_UPGRADE label and no
\* rebuild is in progress, whatever the environment did in between.
C1_DeleteOnlyWhenDrainedAndNoRebuild ==
    pc = "delete" => DrainedForUpgrade(nodes[node_name]) /\ ~rebuilding

\* C1 as amended: whenever the run is about to issue the delete request, the
\* latest get_node of drain_storage_node saw the node Drained with the
\* DRAIN_FOR_UPGRADE label and the latest is_rebuilding poll returned false;
\* the node is still so drained and no rebuild is in progress when no rebuild
\* was started and no other actor changed a node during the run.
C1_DeleteAfterObservedDrainedAndNoRebuild ==
    pc = "delete" =>
        /\ seenDrained
        /\ seenNoRebuild
        /\ envChanges = 0 => DrainedForUpgrade(nodes[node_name]) /\ ~rebuilding

C1_Witness ==
    /\ pc = "delete"
    /\ <<"drain", node_name>> \in issued
    /\ DrainedForUpgrade(nodes[node_name])
    /\ ~rebuilding

\* The stages a successful run enters: the six stages for the first snapshot
\* entry, then the six for the second, and so on.
ExpectedLog ==
    [k \in 1..(Len(Stages) * Len(snapshot)) |->
        <<snapshot[((k - 1) \div Len(Stages)) + 1].node,
          Stages[((k - 1) % Len(Stages)) + 1]>>]

\* C2: when a run returns Ok, the stages entered are exactly drain,
\* rebuild-wait, delete, uncordon, data-plane readiness and control-plane
\* readiness, once each and in that order for every snapshot entry, the
\* entries in the order of the snapshot.
C2_EveryStageOnceInSnapshotOrder ==
    pc = "done" /\ result = "Ok" => stageLog = ExpectedLog

C2_Witness ==
    /\ pc = "done"
    /\ result = "Ok"
    /\ Len(snapshot) >= 2
    /\ snapshot[1].node > snapshot[2].node

\* Nodes for which this run has issued a drain request and has not yet seen
\* the control plane ready after their restart.
InFlight ==
    {n \in Nodes :
        /\ <<"drain", n>> \in issued
        /\ ~\E i \in DOMAIN snapshot : snapshot[i].node = n /\ i \in cpTrue}

\* C3: at most one node is between its drain request and the control-plane
\* readiness confirmed after its restart, and a drain request for a snapshot
\* entry is issued only after both readiness polls of the entry before it
\* returned true.
C3_OneNodeAtATime ==
    /\ Cardinality(InFlight) <= 1
    /\ \A i \in DOMAIN snapshot :
          (i > 1 /\ <<"drain", snapshot[i].node>> \in issued)
              => (i - 1) \in dpTrue /\ (i - 1) \in cpTrue

C3_Witness ==
    /\ pc = "drain_get"
    /\ idx = 2
    /\ <<"drain", node_name>> \in issued
    /\ InFlight = {node_name}

\* C4: no request is issued and the snapshot is not taken before
\* control_plane_is_running has returned true once, and the loop moves on to
\* an entry only after control_plane_is_running has returned true after the
\* restart of every entry before it.
C4_ControlPlaneGates ==
    /\ (issued # {} \/ idx >= 1 \/ pc = "snapshot") => 0 \in cpTrue
    /\ \A i \in 1..(idx - 1) : i \in cpTrue

C4_Witness ==
    /\ pc = "loop"
    /\ idx = 2
    /\ cpTrue = {0, 1}
    /\ issued # {}

\* C5: a failing stage ends the run with its error at once and for good: no
\* request is issued afterwards, every entry before the failing one was deleted
\* and its replacement seen ready, and no request was issued for any entry
\* after it.
C5_FirstErrorEndsTheRun ==
    /\ [](result \in Errors =>
            /\ pc = "done"
            /\ \A j \in DOMAIN snapshot :
                  /\ j < idx => <<"delete", snapshot[j].node>> \in issued /\ j \in dpTrue
                  /\ j > idx => RequestsFor(snapshot[j].node) = {})
    /\ [][pc = "done" => UNCHANGED <<runVars, histVars>>]_vars

C5_Witness ==
    /\ pc = "done"
    /\ result = "StorageNodeUncordon"
    /\ idx = 1
    /\ Len(snapshot) = 2
    /\ <<"delete", snapshot[1].node>> \in issued

\* C6: whenever uncordon_node returns Ok, the cordon/drain state of the node
\* does not contain the DRAIN_FOR_UPGRADE label, whatever state the node was in
\* when uncordon_node was called.
C6_UncordonOkMeansNoLabel ==
    [][(pc = "uncordon_get" /\ pc' = "dp_list")
          => DRAIN_FOR_UPGRADE \notin nodes'[node_name].drainlabels]_vars

\* C7: a run that completes after an earlier run of the same arguments was
\* stopped anywhere leaves the cluster as an uninterrupted run does: no node
\* is left on fromVersion and no node carries the DRAIN_FOR_UPGRADE label.
C7_RerunAfterCrashIsIdempotent ==
    (pc = "done" /\ result = "Ok" /\ runs > 1) =>
        \A n \in Nodes :
            /\ ~fromPods[n]
            /\ DRAIN_FOR_UPGRADE \notin nodes[n].drainlabels

\* C8: in a fair cluster the run eventually returns Ok, having taken every
\* snapshot entry through the six stages in snapshot order, and then no
\* snapshot node carries the DRAIN_FOR_UPGRADE label.
C8_FairRunSucceeds ==
    <>(/\ pc = "done"
       /\ result = "Ok"
       /\ stageLog = ExpectedLog
       /\ \A i \in DOMAIN snapshot :
             DRAIN_FOR_UPGRADE \notin nodes[snapshot[i].node].drainlabels)

C8_Witness ==
    /\ pc = "done"
    /\ result = "Ok"
    /\ Len(snapshot) = NumNodes
    /\ envChanges > 0
    /\ \A n \in Nodes : nodes[n] = Uncordoned /\ toPods[n] = <<TRUE>>

\* C9: once a listing for (node, toVersion) has returned two or more pods, the
\* run has failed with TooManyIoEnginePods: the last stage entered is the
\* data-plane readiness poll of that node, and no request was issued for any
\* later snapshot entry.
C9_TooManyIoEnginePodsEndsTheRun ==
    (Len(pod_list) >= 2 /\ pc # "dp_eval") =>
        /\ pc = "done"
        /\ result = "TooManyIoEnginePods"
        /\ stageLog[Len(stageLog)] = <<node_name, "dp_ready">>
        /\ \A j \in DOMAIN snapshot : j > idx => RequestsFor(snapshot[j].node) = {}

C9_Witness ==
    /\ pc = "done"
    /\ result = "TooManyIoEnginePods"
    /\ Len(pod_list) >= 2
    /\ idx = 1
    /\ Len(snapshot) = 2

\* C10: the run never passes a control-plane check in which the listing of one
\* of the three groups was empty, since control_plane_is_running returns false
\* for it.
C10_EmptyGroupKeepsTheGateShut ==
    pc \in {"snapshot", "loop"} => ~emptyListed

\* Nodes and pod names of the snapshot.
SnapshotNodes == {snapshot[i].node : i \in DOMAIN snapshot}
SnapshotNames == {snapshot[i].name : i \in DOMAIN snapshot}

\* C11: the working set is the one listing of line 49: the list is never
\* changed after it was taken, every request and every stage is for the node
\* of a snapshot entry, and a fromVersion pod that started after the listing is
\* not deleted, nor is anything requested for its node unless the node hosts a
\* snapshot entry.
C11_WorkingSetIsTheOneListing ==
    /\ [](/\ \A r \in issued : r[2] \in SnapshotNodes
          /\ \A k \in DOMAIN stageLog : stageLog[k][1] \in SnapshotNodes
          /\ \A n \in latePods :
                /\ \A k \in DOMAIN deletes : deletes[k] # LatePodName(n)
                /\ n \notin SnapshotNodes => RequestsFor(n) = {})
    /\ [][pc # "snapshot" => UNCHANGED initial_io_engine_pod_list]_vars

C11_Witness ==
    /\ pc = "done"
    /\ result = "Ok"
    /\ deletes # <<>>
    /\ \E n \in latePods : fromPods[n] /\ n \notin SnapshotNodes

\* C12: drain_storage_node returns Ok only in the step that fetched the node
\* Drained with the DRAIN_FOR_UPGRADE label, and then without issuing a drain
\* request; a fetch that sees the node Draining with the label leads to the
\* 5 s sleep and to no request; a fetch that sees any other state leads to the
\* put_node_drain request, which is issued from nowhere else.
C12_DrainArms ==
    /\ [][(pc = "drain_get" /\ pc' \notin {"drain_get", "done"}) =>
            LET s == nodes[node_name]
            IN  /\ pc' = "rebuild_grace" <=> DrainedForUpgrade(s)
                /\ pc' = "drain_sleep" <=> DrainingForUpgrade(s)
                /\ pc' = "drain_put" <=> ~DrainedForUpgrade(s) /\ ~DrainingForUpgrade(s)
                /\ issued' = issued /\ nodes' = nodes]_vars
    /\ [][(pc' = "rebuild_grace" /\ pc # "rebuild_grace") => pc = "drain_get"]_vars
    /\ [][(pc' = "drain_put" /\ pc # "drain_put") => pc = "drain_get"]_vars
    /\ [][(\E n \in Nodes : <<"drain", n>> \in issued' \ issued) => pc = "drain_put"]_vars

\* drain_storage_node has returned Ok for a node that was already Drained with
\* the label when it was called: no drain request was issued.
C12_Witness ==
    /\ pc = "rebuild_grace"
    /\ DrainedForUpgrade(nodes[node_name])
    /\ <<"drain", node_name>> \notin issued

\* C13: the delete request of a snapshot entry is issued only from the delete
\* stage, which is entered only by a rebuild poll that returned false; within
\* the per-node sequence of the entry the latest fetch of drain_storage_node
\* then saw the node Drained with the label, the false poll came after it, and
\* while the rebuild wait lasts no delete has been issued for the node.
C13_DeleteFollowsDrainedThenFalsePoll ==
    /\ [][(\E n \in Nodes : <<"delete", n>> \in issued' \ issued) =>
            pc = "delete" /\ seenDrained /\ seenNoRebuild]_vars
    /\ [][(pc' = "delete" /\ pc # "delete") => pc = "rebuild_poll" /\ ~rebuilding]_vars
    /\ [](seenNoRebuild => seenDrained)
    /\ [](pc \in {"rebuild_grace", "rebuild_poll", "rebuild_sleep"} =>
            <<"delete", node_name>> \notin issued)

C13_Witness ==
    /\ pc = "uncordon_get"
    /\ deletes = <<pod_name>>
    /\ <<"drain", node_name>> \in issued
    /\ seenDrained
    /\ seenNoRebuild
    /\ envChanges > 0

\* C14: when a fetch of uncordon_node succeeds and shows the node in any state
\* but Drained with the DRAIN_FOR_UPGRADE label, uncordon_node returns Ok in
\* that step: no delete_node_cordon request is issued and the cordon/drain
\* state of every node is left as it is.
C14_UncordonNoOp ==
    [][(/\ pc = "uncordon_get"
        /\ pc' \notin {"uncordon_get", "done"}
        /\ ~DrainedForUpgrade(nodes[node_name]))
          => pc' = "dp_list" /\ issued' = issued /\ nodes' = nodes]_vars

\* uncordon_node has returned Ok for a node that is still drained or draining,
\* and no delete_node_cordon request was issued for it.
C14_Witness ==
    /\ pc = "dp_list"
    /\ nodes[node_name].kind \in {"Draining", "Drained"}
    /\ <<"uncordon", node_name>> \notin issued

\* C15: a call that fails ends the run in that step with the error of the
\* call, whichever loop it was made in, so that no call is made after a failed
\* one; and a poll loop goes round again only from a call that succeeded and
\* returned a state that is not the awaited one: the node Draining with the
\* label, the rebuild flag true, the label just removed, a listing without
\* exactly one ready pod, a control plane that is not running.
C15_FailureIsNeverRetried ==
    /\ [][ApiFailure => pc' = "done" /\ result' = ErrorAt[pc] /\ stageLog' = stageLog]_vars
    /\ [](pc # "done" <=> result = "none")
    /\ [][(pc' = "drain_sleep" /\ pc # "drain_sleep") =>
            pc = "drain_get" /\ DrainingForUpgrade(nodes[node_name])]_vars
    /\ [][(pc' = "rebuild_sleep" /\ pc # "rebuild_sleep") =>
            pc = "rebuild_poll" /\ rebuilding]_vars
    /\ [][(pc' = "uncordon_sleep" /\ pc # "uncordon_sleep") =>
            pc = "uncordon_del" /\ DRAIN_FOR_UPGRADE \notin nodes'[node_name].drainlabels]_vars
    /\ [][(pc' = "dp_sleep" /\ pc # "dp_sleep") =>
            pc = "dp_eval" /\ pod_list \in {<<>>, <<FALSE>>}]_vars
    /\ [][(pc' = "cp_sleep" /\ pc # "cp_sleep") => pc = "cp_etcd" /\ cpTrue' = cpTrue]_vars

\* The rebuild poll failed after the loop of wait_for_rebuild had gone round.
C15_Witness ==
    /\ pc = "done"
    /\ result = "IsRebuilding"
    /\ TruePolls >= 1
    /\ deletes = <<>>

\* The errors of a failed call.
ApiErrors == {ErrorAt[p] : p \in DOMAIN ErrorAt}

\* Positions of the control-plane poll, and the positions past the drain
\* loop, past the rebuild wait and past the data-plane poll of the current
\* snapshot entry.
CpPositions == {"cp_core", "cp_rest", "cp_etcd", "cp_sleep"}
PastDataPlane == idx >= 1 /\ pc \in CpPositions
PastRebuild ==
    \/ pc \in {"delete", "uncordon_get", "uncordon_del", "uncordon_sleep",
               "dp_list", "dp_eval", "dp_sleep"}
    \/ idx >= 1 /\ pc \in CpPositions
PastDrain == PastRebuild \/ pc \in {"rebuild_grace", "rebuild_poll", "rebuild_sleep"}

ExpectedWait(k) ==
    [j \in 1..(2 * k + 2) |->
        IF j = 1 THEN "sleep60"
        ELSE IF j = 2 * k + 2 THEN "false"
        ELSE IF j % 2 = 0 THEN "true" ELSE "sleep10"]

\* C17: when wait_for_rebuild has returned Ok after k polls that returned
\* true, it has slept the grace period once, before the first poll, then
\* polled k + 1 times, sleeping 10 s after each true poll, and the last poll,
\* the only false one, ended it; before it returns, what it has done is the
\* beginning of that sequence.
C17_WaitForRebuildSequence ==
    /\ pc = "delete" => waitLog = ExpectedWait(TruePolls)
    /\ pc = "rebuild_poll" =>
          waitLog = SubSeq(ExpectedWait(TruePolls), 1, 2 * TruePolls + 1)
    /\ pc = "rebuild_sleep" =>
          waitLog = SubSeq(ExpectedWait(TruePolls), 1, 2 * TruePolls)

\* wait_for_rebuild has returned after two true polls and a false one.
C17_Witness ==
    /\ pc = "delete"
    /\ TruePolls = 2
    /\ Len(waitLog) = 6

\* C18: once the data-plane readiness stage of a snapshot entry has completed,
\* the listing it ended on held exactly one pod, and that pod was ready; while
\* the stage sleeps before polling again, the listing held no pod or one pod
\* that was not ready; and the stage fails with TooManyIoEnginePods only on a
\* listing of two or more pods, never on an empty one.
C18_DataPlaneReadyOnOneReadyPod ==
    /\ PastDataPlane => pod_list = <<TRUE>>
    /\ pc = "dp_sleep" => pod_list \in {<<>>, <<FALSE>>} /\ result = "none"
    /\ result = "TooManyIoEnginePods" => Len(pod_list) >= 2

\* The stage has completed for the second snapshot entry.
C18_Witness ==
    /\ pc = "cp_core"
    /\ idx = 2
    /\ pod_list = <<TRUE>>
    /\ stageLog[Len(stageLog)] = <<node_name, "cp_ready">>

\* C19: a step of the run changes the cordon/drain state of no node but the
\* node of the current snapshot entry, and of that node only by adding or
\* removing the DRAIN_FOR_UPGRADE label: the label of another actor stays as
\* it is; every request is issued for the node of the current entry, which
\* hosts a snapshot instance; and the run waits for a drain, takes a node as
\* drained, or removes a label only when the node carries DRAIN_FOR_UPGRADE.
C19_OnlyOwnLabelOnlyCurrentNode ==
    /\ [][pc' # pc =>
            \A n \in Nodes :
                /\ OTHER_LABEL \in nodes'[n].drainlabels <=> OTHER_LABEL \in nodes[n].drainlabels
                /\ nodes'[n] # nodes[n] =>
                      /\ idx \in DOMAIN snapshot
                      /\ n = node_name
                      /\ pc \in {"drain_put", "uncordon_del"}
                      /\ pc = "drain_put" => DRAIN_FOR_UPGRADE \in nodes'[n].drainlabels
                      /\ pc = "uncordon_del" => DRAIN_FOR_UPGRADE \notin nodes'[n].drainlabels]_vars
    /\ [][\A r \in issued' \ issued :
              idx \in DOMAIN snapshot /\ r[2] = node_name /\ r[2] \in SnapshotNodes]_vars
    /\ [][(pc = "drain_get" /\ pc' \in {"drain_sleep", "rebuild_grace"}) =>
            DRAIN_FOR_UPGRADE \in nodes[node_name].drainlabels]_vars
    /\ [][(pc = "uncordon_get" /\ pc' = "uncordon_del") =>
            DRAIN_FOR_UPGRADE \in nodes[node_name].drainlabels]_vars

\* The run has drained and uncordoned a node that another actor holds drained:
\* the label of the other actor is still there.
C19_Witness ==
    /\ pc = "dp_list"
    /\ <<"drain", node_name>> \in issued
    /\ <<"uncordon", node_name>> \in issued
    /\ nodes[node_name].drainlabels = {OTHER_LABEL}

\* C20: the delete requests of a run are, in order, for the names of the
\* first snapshot entries: each names a pod of the snapshot, no name is
\* requested twice, no entry is skipped, and the name of a pod that started
\* during the run is never requested.
C20_DeletesAreSnapshotNamesOnce ==
    /\ Len(deletes) <= Len(snapshot)
    /\ \A k \in DOMAIN deletes : deletes[k] = snapshot[k].name
    /\ \A j, k \in DOMAIN deletes : deletes[j] = deletes[k] => j = k
    /\ \A k \in DOMAIN deletes : \A n \in Nodes : deletes[k] # LatePodName(n)
    /\ Len(deletes) \in {idx - 1, idx} \/ deletes = <<>>

\* A run has deleted both pods of its snapshot and returned Ok, and the pod
\* that started on a snapshot node in the place of a deleted one is there.
C20_Witness ==
    /\ pc = "done"
    /\ result = "Ok"
    /\ Len(deletes) = 2
    /\ \E n \in latePods : n \in SnapshotNodes /\ fromPods[n]

====
